---- MODULE Spec2Model ----
(***************************************************************************)
(* TCGA gene-expression tool of OrigeneMCP.                                *)
(*                                                                         *)
(* src/tools/tcga/tcga_api.py : TCGA_API.get_gene_specific_expression_in_  *)
(*   cancer_type pages through the Firebrowse mRNASeq endpoint, concatenates*)
(*   the pages, groups by cohort, computes the z-score of the cohort means *)
(*   and returns the cohorts with z > 1 and z < -1.                        *)
(* src/tools/tcga/server.py : the MCP tool of the same name wraps the call *)
(*   in try/except Exception.                                              *)
(*                                                                         *)
(* A TSV body is a sequence of lines, a line a sequence of fields, a field *)
(* a record (text or number) so that every field has one type.  A blank    *)
(* line is the empty sequence of fields.  Cohort means are rationals; they *)
(* are kept as (sum, count) and compared by cross-multiplication, and a    *)
(* z-score is kept as its sign and its square num/den.  The per-cohort     *)
(* "std" column of the aggregation is computed by the code but never read  *)
(* again, and is not carried.  Bodies with a line shorter than the first   *)
(* line of the page (pandas pads it with NaN) are not among the inputs.    *)
(***************************************************************************)
EXTENDS Integers, Sequences, FiniteSets, TLC

VARIABLES gene, page, resp, columns, all_data, final_df, df_grouped,
          result, exc, toolResult, pc, requested, fetched

vars == <<gene, page, resp, columns, all_data, final_df, df_grouped,
          result, exc, toolResult, pc, requested, fetched>>

(*************************** bounds of the model ***************************)
\* Pages one invocation is followed for; the code has no such limit.
MaxPage == 3
\* Rows of the dataset the classification is explored on.
MaxRows == 5
\* A candidate value of the page cap claim C10 speaks of.
PageCap == 2

(******************************** fields ***********************************)
Str(s) == [t |-> "str", s |-> s, n |-> 0]
Num(n) == [t |-> "num", s |-> "", n |-> n]

Header     == <<Str("cohort"), Str("expression_log2")>>
NoRecords  == <<Str("No records")>>
Blank      == <<>>
Row(c, v)  == <<Str(c), Num(v)>>
WideRow    == <<Str("ACC"), Num(1), Str("TP")>>
NarrowRow  == <<Str("BLCA")>>

Genes == {"TP53", "EGFR"}

\* What the endpoint may answer for page 1 (with the header line, or without
\* one) and for a later page (without, or repeating it).
FirstBodies ==
    { <<>>, <<Blank>>, <<NoRecords>>,
      <<Header>>,
      <<Header, Row("ACC", 0), Blank>>,
      <<Header, Row("ACC", 2), Row("BLCA", 1)>>,
      <<Row("ACC", 0), Row("BLCA", 1)>> }

LaterBodies ==
    { <<>>, <<NoRecords, Blank>>,
      <<Row("BLCA", 1)>>,
      <<Row("BLCA", 0), Row("BRCA", 2), Blank>>,
      <<Header, Row("BRCA", 1)>>,
      <<WideRow>>,
      <<NarrowRow>>,
      <<Row("BRCA", 1), WideRow>> }

BodiesFor(p) == IF p = 1 THEN FirstBodies ELSE LaterBodies

\* The body of an error response.
ErrorBody == <<<<Str("error")>>>>

\* A response of session.get: a status and a body.
Responses(p) ==
    { [status |-> 200, text |-> b] : b \in BodiesFor(p) }
      \cup { [status |-> 204, text |-> <<>>] }
      \cup { [status |-> s, text |-> ErrorBody] : s \in {404, 500} }

NoResp   == [status |-> 0, text |-> <<>>]
Unbound  == [bound |-> FALSE, columns |-> <<>>, rows |-> <<>>]
Frame(cols, rows) == [bound |-> TRUE, columns |-> cols, rows |-> rows]
NoResult == [high_expression_cancers |-> <<>>, low_expression_cancers |-> <<>>]

(****************************** text helpers *******************************)
RECURSIVE DropLeadingBlank(_)
DropLeadingBlank(ls) ==
    IF ls = <<>> THEN <<>>
    ELSE IF Head(ls) = Blank THEN DropLeadingBlank(Tail(ls)) ELSE ls

RECURSIVE DropTrailingBlank(_)
DropTrailingBlank(ls) ==
    IF ls = <<>> THEN <<>>
    ELSE IF ls[Len(ls)] = Blank THEN DropTrailingBlank(SubSeq(ls, 1, Len(ls) - 1))
    ELSE ls

\* resp.text.strip()
Strip(text) == DropTrailingBlank(DropLeadingBlank(text))

\* content.startswith("No records")
StartsWithNoRecords(content) ==
    /\ content # <<>>
    /\ Head(content) # <<>>
    /\ Head(content)[1] = Str("No records")

TerminatingOnlyEmpty(content) == content = <<>>

\* not content or content.startswith("No records")
Terminating(content) == content = <<>> \/ StartsWithNoRecords(content)

\* read_csv skips blank lines
NonBlank(ls) == SelectSeq(ls, LAMBDA l : l # Blank)

\* The column labels pandas gives a frame read with header=None: 0, 1, ...
RangeIndex(n) == [i \in 1..n |-> Num(i - 1)]

\* pd.read_csv(StringIO(content), sep="\t"): the first line names the columns
\* and is not a row
ReadCsvFirst(content) ==
    LET ls == NonBlank(content) IN Frame(Head(ls), Tail(ls))

\* pd.read_csv(..., header=None): every line is a row, the first line sets the
\* number of columns; a later line with more fields is a ParserError
ReadCsvLaterDropsFirst(content) ==
    LET ls == NonBlank(content) IN Frame(RangeIndex(Len(ls[1])), Tail(ls))

ReadCsvLater(content) ==
    LET ls == NonBlank(content) IN Frame(RangeIndex(Len(ls[1])), ls)

ParserError(content) ==
    LET ls == NonBlank(content)
    IN  \E i \in 1..Len(ls) : Len(ls[i]) > Len(ls[1])

\* df.columns = columns raises ValueError (length mismatch) unless the frame
\* has as many columns as the stored header
LengthMismatchIgnored(frame, cols) == FALSE

LengthMismatch(frame, cols) == Len(frame.columns) # Len(cols)

RECURSIVE ConcatRows(_)
\* pd.concat(all_data, ignore_index=True)
ConcatRows(frames) ==
    IF frames = <<>> THEN <<>>
    ELSE Head(frames).rows \o ConcatRows(Tail(frames))

(******************************** Init *************************************)
Init ==
    /\ gene \in Genes
    /\ page = 1
    /\ resp = NoResp
    /\ columns = <<>>
    /\ all_data = <<>>
    /\ final_df = Unbound
    /\ df_grouped = <<>>
    /\ result = NoResult
    /\ exc = "none"
    /\ toolResult = [kind |-> "pending", value |-> NoResult, error |-> "none"]
    /\ pc = "request"
    /\ requested = <<>>
    /\ fetched = <<>>

(************************* the pagination loop *****************************)
\* line 27: resp = self.session.get(self.BASE_URL, params=params)
Request ==
    /\ pc = "request"
    /\ page <= MaxPage
    /\ requested' = Append(requested, page)
    /\ \/ \E r \in Responses(page) :
            /\ resp' = r
            /\ fetched' = Append(fetched, r)
            /\ pc' = "status"
            /\ exc' = exc
       \/ /\ exc' = "ConnectionError"
          /\ pc' = "raised"
          /\ UNCHANGED <<resp, fetched>>
    /\ UNCHANGED <<gene, page, columns, all_data, final_df, df_grouped,
                   result, toolResult>>

\* resp.raise_for_status() in the place of the break
CheckStatusRaises ==
    /\ pc = "status"
    /\ IF resp.status # 200
       THEN pc' = "raised" /\ exc' = "HTTPError"
       ELSE pc' = "content" /\ exc' = exc
    /\ UNCHANGED <<gene, page, resp, columns, all_data, final_df, df_grouped,
                   result, toolResult, requested, fetched>>

\* lines 28-30: if resp.status_code != 200: break
CheckStatus ==
    /\ pc = "status"
    /\ pc' = IF resp.status # 200 THEN "concat" ELSE "content"
    /\ UNCHANGED <<gene, page, resp, columns, all_data, final_df, df_grouped,
                   result, exc, toolResult, requested, fetched>>

\* lines 32-34: content = resp.text.strip(); empty or "No records": break
CheckContent ==
    /\ pc = "content"
    /\ pc' = IF Terminating(Strip(resp.text)) THEN "concat" ELSE "parse"
    /\ UNCHANGED <<gene, page, resp, columns, all_data, final_df, df_grouped,
                   result, exc, toolResult, requested, fetched>>

\* lines 37-45: parse the page, append it, move to the next page
ParsePage ==
    /\ pc = "parse"
    /\ LET content == Strip(resp.text) IN
       IF page = 1
       THEN LET df == ReadCsvFirst(content) IN
            /\ columns' = df.columns
            /\ all_data' = Append(all_data, df)
            /\ page' = page + 1
            /\ pc' = "request"
            /\ exc' = exc
       ELSE IF ParserError(content)
       THEN /\ exc' = "ParserError"
            /\ pc' = "raised"
            /\ UNCHANGED <<columns, all_data, page>>
       ELSE LET df == ReadCsvLater(content) IN
            IF LengthMismatch(df, columns)
            THEN /\ exc' = "ValueError"
                 /\ pc' = "raised"
                 /\ UNCHANGED <<columns, all_data, page>>
            ELSE /\ all_data' = Append(all_data, Frame(columns, df.rows))
                 /\ page' = page + 1
                 /\ pc' = "request"
                 /\ UNCHANGED <<columns, exc>>
    /\ UNCHANGED <<gene, resp, final_df, df_grouped, result, toolResult,
                   requested, fetched>>

\* final_df bound to a frame without rows when no page was kept
ConcatAlwaysBinds ==
    /\ pc = "concat"
    /\ final_df' = IF all_data # <<>>
                   THEN Frame(all_data[1].columns, ConcatRows(all_data))
                   ELSE Frame(Header, <<>>)
    /\ pc' = "aggregate"
    /\ UNCHANGED <<gene, page, resp, columns, all_data, df_grouped, result,
                   exc, toolResult, requested, fetched>>

\* lines 48-49: if all_data: final_df = pd.concat(all_data, ignore_index=True)
Concat ==
    /\ pc = "concat"
    /\ final_df' = IF all_data # <<>>
                   THEN Frame(all_data[1].columns, ConcatRows(all_data))
                   ELSE final_df
    /\ pc' = "aggregate"
    /\ UNCHANGED <<gene, page, resp, columns, all_data, df_grouped, result,
                   exc, toolResult, requested, fetched>>

(********************* grouping and statistics *****************************)
\* The cohort identifiers of the data, in the order groupby sorts its keys.
CohortOrder == <<"ACC", "BLCA", "BRCA", "CESC", "COAD">>
Cohorts == {CohortOrder[i] : i \in 1..Len(CohortOrder)}

\* The values of expression_log2 the classification is explored on.
Values == {0, 1, 20, 21}

\* Position of the column named name among the labels, 0 when there is none.
ColIndex(cols, name) ==
    IF \E i \in 1..Len(cols) : cols[i] = Str(name)
    THEN CHOOSE i \in 1..Len(cols) :
            /\ cols[i] = Str(name)
            /\ \A j \in 1..(i - 1) : cols[j] # Str(name)
    ELSE 0

RECURSIVE SumOf(_, _, _, _)
\* sum of column vi over the rows whose column ki is the cohort c
SumOf(rows, ki, vi, c) ==
    IF rows = <<>> THEN 0
    ELSE (IF Head(rows)[ki].s = c THEN Head(rows)[vi].n ELSE 0)
         + SumOf(Tail(rows), ki, vi, c)

RECURSIVE CountOf(_, _, _)
CountOf(rows, ki, c) ==
    IF rows = <<>> THEN 0
    ELSE (IF Head(rows)[ki].s = c THEN 1 ELSE 0) + CountOf(Tail(rows), ki, c)

\* mean(a) < mean(b), the means being sum/count with count >= 1
MeanLess(a, b) == a.sum * b.count < b.sum * a.count

RECURSIVE InsertDesc(_, _)
InsertDesc(x, s) ==
    IF s = <<>> THEN <<x>>
    ELSE IF MeanLess(Head(s), x) THEN <<x>> \o s
    ELSE <<Head(s)>> \o InsertDesc(x, Tail(s))

RECURSIVE InsertAsc(_, _)
InsertAsc(x, s) ==
    IF s = <<>> THEN <<x>>
    ELSE IF MeanLess(x, Head(s)) THEN <<x>> \o s
    ELSE <<Head(s)>> \o InsertAsc(x, Tail(s))

RECURSIVE SortDesc(_)
\* sort_values("mean", ascending=False); rows of equal mean keep their order
SortDesc(s) ==
    IF s = <<>> THEN <<>>
    ELSE InsertDesc(s[Len(s)], SortDesc(SubSeq(s, 1, Len(s) - 1)))

RECURSIVE SortAsc(_)
\* sort_values("mean")
SortAsc(s) ==
    IF s = <<>> THEN <<>>
    ELSE InsertAsc(s[Len(s)], SortAsc(SubSeq(s, 1, Len(s) - 1)))

RECURSIVE GroupsFrom(_, _, _, _)
\* The groups of the cohorts CohortOrder[k], CohortOrder[k+1], ... present in
\* the rows, each with the sum and the count of its values.
GroupsFrom(rows, ki, vi, k) ==
    IF k > Len(CohortOrder) THEN <<>>
    ELSE (IF CountOf(rows, ki, CohortOrder[k]) > 0
          THEN <<[cohort |-> CohortOrder[k],
                  sum    |-> SumOf(rows, ki, vi, CohortOrder[k]),
                  count  |-> CountOf(rows, ki, CohortOrder[k])]>>
          ELSE <<>>)
         \o GroupsFrom(rows, ki, vi, k + 1)

\* final_df.groupby("cohort")["expression_log2"].agg(["mean", "std", "count"]):
\* one row per cohort present, in key order
GroupBy(rows, ki, vi) == GroupsFrom(rows, ki, vi, 1)

RECURSIVE Prod(_)
Prod(g) == IF g = <<>> THEN 1 ELSE Head(g).count * Prod(Tail(g))

RECURSIVE Total(_)
Total(xs) == IF xs = <<>> THEN 0 ELSE Head(xs) + Total(Tail(xs))

NaN == [nan |-> TRUE, sign |-> 0, num |-> 0, den |-> 1]

Sign(x) == IF x > 0 THEN 1 ELSE IF x < 0 THEN -1 ELSE 0

\* (mean - mean.mean()) / mean.std() of every row of g.  With L the product of
\* the counts, M[i] = L * mean[i] is an integer and d[i] = N*M[i] - sum(M) is
\* N*L*(mean[i] - mean of means); the sample variance of the means is
\* sum(d^2) / (N^2 L^2 (N-1)), so z[i]^2 = d[i]^2 (N-1) / sum(d^2).  The
\* standard deviation is NaN for fewer than two cohorts, and 0/0 is NaN.
ZScores(g) ==
    LET N    == Len(g)
        L    == Prod(g)
        M(i) == g[i].sum * (L \div g[i].count)
        sumM == Total([i \in 1..N |-> M(i)])
        d(i) == N * M(i) - sumM
        ss   == Total([i \in 1..N |-> d(i) * d(i)])
    IN  [i \in 1..N |->
            IF N < 2 \/ ss = 0 THEN NaN
            ELSE [nan |-> FALSE, sign |-> Sign(d(i)),
                  num |-> d(i) * d(i) * (N - 1), den |-> ss]]

\* The division of a float by a zero of Python, which raises
ZScoreErrorPythonDivision(g) ==
    LET z == ZScores(g)
    IN  IF Len(g) >= 2 /\ \A i \in 1..Len(g) : z[i].nan
        THEN "ZeroDivisionError" ELSE "none"

\* line 52: the division of a Series by mean.std() follows IEEE 754 (x/0 is
\* inf or NaN, x/NaN is NaN) and raises nothing
ZScoreError(g) == "none"

WithZ(g) ==
    LET z == ZScores(g)
    IN  [i \in 1..Len(g) |->
            [cohort |-> g[i].cohort, sum |-> g[i].sum, count |-> g[i].count,
             zscore |-> z[i]]]

\* zscore > 1 and zscore < -1; a comparison with NaN is false
GtOne(z)      == ~z.nan /\ z.sign > 0 /\ z.num > z.den
LtMinusOne(z) == ~z.nan /\ z.sign < 0 /\ z.num > z.den

\* float(round(row["mean"], 3)), in thousandths
Round3(sum, count) == (2000 * sum + count) \div (2 * count)

Entry(row) ==
    [cancer_type     |-> row.cohort,
     mean_expression |-> Round3(row.sum, row.count),
     sample_count    |-> row.count]

\* line 55
HighExprAboveZero(g) ==
    SortDesc(SelectSeq(g, LAMBDA r : ~r.zscore.nan /\ r.zscore.sign > 0))

HighExprUnsorted(g) ==
    SortAsc(SelectSeq(g, LAMBDA r : GtOne(r.zscore)))

HighExpr(g) == SortDesc(SelectSeq(g, LAMBDA r : GtOne(r.zscore)))

\* line 56
LowExpr(g) == SortAsc(SelectSeq(g, LAMBDA r : LtMinusOne(r.zscore)))

\* The expression column holds a field that is no number.
NonNumeric(rows, vi) == \E i \in 1..Len(rows) : rows[i][vi].t # "num"

\* A page without rows is a frame whose columns have dtype object, and so has
\* the concatenation in the pandas versions that keep that dtype.  Aggregating
\* an object column raises DataError in some versions and works in others.
DtypeOutcomes(frames) ==
    IF \E i \in 1..Len(frames) : frames[i].rows = <<>>
    THEN {"DataError", "none"}
    ELSE {"none"}

\* lines 51-52: group, aggregate, sort by mean, add the z-score column
Aggregate ==
    /\ pc = "aggregate"
    /\ IF ~final_df.bound
       THEN /\ exc' = "UnboundLocalError"
            /\ pc' = "raised"
            /\ UNCHANGED df_grouped
       ELSE LET ki == ColIndex(final_df.columns, "cohort")
                vi == ColIndex(final_df.columns, "expression_log2")
            IN  IF ki = 0 \/ vi = 0
                THEN /\ exc' = "KeyError"
                     /\ pc' = "raised"
                     /\ UNCHANGED df_grouped
                ELSE \E o \in DtypeOutcomes(all_data) :
                     IF o # "none"
                     THEN /\ exc' = o
                          /\ pc' = "raised"
                          /\ UNCHANGED df_grouped
                     ELSE IF NonNumeric(final_df.rows, vi)
                     THEN /\ exc' = "TypeError"
                          /\ pc' = "raised"
                          /\ UNCHANGED df_grouped
                     ELSE LET g == SortDesc(GroupBy(final_df.rows, ki, vi)) IN
                          IF ZScoreError(g) # "none"
                          THEN /\ exc' = ZScoreError(g)
                               /\ pc' = "raised"
                               /\ UNCHANGED df_grouped
                          ELSE /\ df_grouped' = WithZ(g)
                               /\ pc' = "classify"
                               /\ exc' = exc
    /\ UNCHANGED <<gene, page, resp, columns, all_data, final_df, result,
                   toolResult, requested, fetched>>

\* lines 55-75: select, sort and format the two lists, and return them
Classify ==
    /\ pc = "classify"
    /\ LET high_expr == HighExpr(df_grouped)
           low_expr  == LowExpr(df_grouped)
       IN  result' =
             [high_expression_cancers |->
                 [i \in 1..Len(high_expr) |-> Entry(high_expr[i])],
              low_expression_cancers |->
                 [i \in 1..Len(low_expr) |-> Entry(low_expr[i])]]
    /\ pc' = "returned"
    /\ UNCHANGED <<gene, page, resp, columns, all_data, final_df, df_grouped,
                   exc, toolResult, requested, fetched>>

(****************************** the tool ***********************************)
\* The exceptions that are no subclass of Exception.
BaseOnly == {"KeyboardInterrupt", "SystemExit", "GeneratorExit"}

CatchesOnlyValueError(e) == e = "ValueError"

\* server.py line 30: except Exception as e
Catches(e) == e \notin BaseOnly

\* server.py lines 30-31: return [{"error": f"... {str(e)}"}]
ToolCatch ==
    /\ pc = "raised"
    /\ IF Catches(exc)
       THEN /\ toolResult' = [kind |-> "error_list", value |-> NoResult,
                              error |-> exc]
            /\ pc' = "done"
       ELSE /\ toolResult' = [kind |-> "escaped", value |-> NoResult,
                              error |-> exc]
            /\ pc' = "crashed"
    /\ UNCHANGED <<gene, page, resp, columns, all_data, final_df, df_grouped,
                   result, exc, requested, fetched>>

\* server.py lines 29, 32: return result
ToolReturn ==
    /\ pc = "returned"
    /\ toolResult' = [kind |-> "result", value |-> result, error |-> "none"]
    /\ pc' = "done"
    /\ UNCHANGED <<gene, page, resp, columns, all_data, final_df, df_grouped,
                   result, exc, requested, fetched>>

Next ==
    \/ Request \/ CheckStatus \/ CheckContent \/ ParsePage \/ Concat
    \/ Aggregate \/ Classify \/ ToolCatch \/ ToolReturn

Spec == Init /\ [][Next]_vars

(************** the classification on a range of datasets ******************)
RECURSIVE CohortOfRow(_, _, _)
\* The cohort of row i when cohort CohortOrder[k] has cnt[k] rows, the
\* cohorts following each other in key order (the request asks for
\* sort_by=cohort); k is the cohort the count starts from.
CohortOfRow(cnt, k, i) ==
    IF i <= cnt[k] THEN CohortOrder[k] ELSE CohortOfRow(cnt, k + 1, i - cnt[k])

\* Rows of one cohort follow each other in nondecreasing value (the sums and
\* counts do not depend on the order of the rows of a cohort).
Canonical(rows) ==
    \A i \in 1..(Len(rows) - 1) :
        rows[i][1] = rows[i + 1][1] => rows[i][2].n <= rows[i + 1][2].n

\* The cohorts present are the first ones of CohortOrder (which identifiers are
\* present matters to the code only through their order).
Prefix(cnt) == \A k \in 1..(Len(cnt) - 1) : cnt[k] = 0 => cnt[k + 1] = 0

\* The state when the loop has ended after a first page of at most MaxRows
\* rows over Cohorts and Values and an empty second page, and the pages have
\* been concatenated.
InitClassify ==
    \E cnt \in [1..Len(CohortOrder) -> 0..MaxRows] :
      /\ Total(cnt) <= MaxRows
      /\ Prefix(cnt)
      /\ \E vals \in [1..Total(cnt) -> Values] :
          /\ all_data =
               <<Frame(Header, [i \in 1..Total(cnt) |->
                                  Row(CohortOfRow(cnt, 1, i), vals[i])])>>
          /\ Canonical(all_data[1].rows)
          /\ final_df = all_data[1]
          /\ fetched = <<[status |-> 200, text |-> <<Header>> \o final_df.rows],
                         [status |-> 200, text |-> <<>>]>>
          /\ gene = "TP53"
          /\ page = 2
          /\ resp = [status |-> 200, text |-> <<>>]
          /\ columns = Header
          /\ df_grouped = <<>>
          /\ result = NoResult
          /\ exc = "none"
          /\ toolResult = [kind |-> "pending", value |-> NoResult,
                           error |-> "none"]
          /\ pc = "aggregate"
          /\ requested = <<1, 2>>

NextClassify == Aggregate \/ Classify

SpecClassify == InitClassify /\ [][NextClassify]_vars
(***************************************************************************)
(* Reference statistics, taken from the rows of final_df (column 1 the     *)
(* cohort, column 2 the value, as under the header of page 1).             *)
(***************************************************************************)
RefCohorts == {final_df.rows[i][1].s : i \in 1..Len(final_df.rows)}

RefIdx(c) == {i \in 1..Len(final_df.rows) : final_df.rows[i][1].s = c}

RECURSIVE SetSum(_, _)
SetSum(S, f) ==
    IF S = {} THEN 0
    ELSE LET x == CHOOSE y \in S : TRUE IN f[x] + SetSum(S \ {x}, f)

RECURSIVE SetProd(_, _)
SetProd(S, f) ==
    IF S = {} THEN 1
    ELSE LET x == CHOOSE y \in S : TRUE IN f[x] * SetProd(S \ {x}, f)

RefCount(c) == Cardinality(RefIdx(c))
RefSum(c)   == SetSum(RefIdx(c), [i \in RefIdx(c) |-> final_df.rows[i][2].n])

\* The sign of z(c) and whether |z(c)| > 1, z(c) being (mean of c - mean of the
\* cohort means) / sample standard deviation of the cohort means.  With D the
\* product of the counts, scaled[k] is D * mean of k, and dev is
\* N * D * (mean of c - mean of the means); |z(c)| > 1 says that the squared
\* deviation exceeds the sample variance, dev^2 > sum(dev^2) / (N - 1).
RefBeyond(c, sign) ==
    LET N      == Cardinality(RefCohorts)
        D      == SetProd(RefCohorts, [k \in RefCohorts |-> RefCount(k)])
        scaled == [k \in RefCohorts |-> RefSum(k) * (D \div RefCount(k))]
        total  == SetSum(RefCohorts, scaled)
        sumsq  == SetSum(RefCohorts,
                         [k \in RefCohorts |->
                            (N * scaled[k] - total) * (N * scaled[k] - total)])
        dev    == N * scaled[c] - total
    IN  /\ dev * sign > 0
        /\ (N - 1) * dev * dev > sumsq

\* z(c) > 1
RefAbove(c) == RefBeyond(c, 1)

\* z(c) < -1
RefBelow(c) == RefBeyond(c, -1)

\* The mean of c is above the mean of the cohort means.
RefAboveMean(c) ==
    LET D      == SetProd(RefCohorts, [k \in RefCohorts |-> RefCount(k)])
        scaled == [k \in RefCohorts |-> RefSum(k) * (D \div RefCount(k))]
    IN  Cardinality(RefCohorts) * scaled[c] > SetSum(RefCohorts, scaled)

High == result.high_expression_cancers
Low  == result.low_expression_cancers

\* C1: every cohort of high_expression_cancers has a z-score strictly above 1,
\* every cohort of low_expression_cancers a z-score strictly below -1, the
\* z-score being (cohort mean - mean of cohort means) / sample standard
\* deviation of the cohort means; no cohort is in both lists.
C1_ZScoreThresholds ==
    /\ \A i \in 1..Len(High) : RefAbove(High[i].cancer_type)
    /\ \A i \in 1..Len(Low) : RefBelow(Low[i].cancer_type)
    /\ \A i \in 1..Len(High) : \A j \in 1..Len(Low) :
          High[i].cancer_type # Low[j].cancer_type

\* A classification with a high cohort, and a cohort above the mean of the
\* means that is not high.
C1_Witness ==
    /\ pc = "returned"
    /\ Len(High) >= 1
    /\ \E c \in RefCohorts :
          /\ RefAboveMean(c)
          /\ \A i \in 1..Len(High) : High[i].cancer_type # c

\* C2: high_expression_cancers is in non-increasing order of mean expression,
\* low_expression_cancers in non-decreasing order, and no cancer_type occurs
\* twice in a list.
C2_ListsSortedNoDuplicates ==
    /\ \A i \in 1..Len(High) : \A j \in 1..Len(High) :
          i < j => /\ High[i].mean_expression >= High[j].mean_expression
                   /\ High[i].cancer_type # High[j].cancer_type
    /\ \A i \in 1..Len(Low) : \A j \in 1..Len(Low) :
          i < j => /\ Low[i].mean_expression <= Low[j].mean_expression
                   /\ Low[i].cancer_type # Low[j].cancer_type

\* A classification whose high list has two cohorts of different means.
C2_Witness ==
    /\ pc = "returned"
    /\ Len(High) >= 2
    /\ High[1].mean_expression > High[2].mean_expression

\* Fewer than two cohorts, or all cohort means equal.
RefDegenerate ==
    \/ Cardinality(RefCohorts) < 2
    \/ \A a \in RefCohorts : \A b \in RefCohorts :
          RefSum(a) * RefCount(b) = RefSum(b) * RefCount(a)

\* C3: a dataset with fewer than two cohorts, or whose cohort means are all
\* equal, is classified with both lists empty, and the classification raises
\* nothing.
\* (Stated by contraposition: a non-empty list or an error implies that the
\* dataset is not degenerate.)
C3_DegenerateGivesEmptyLists ==
    (/\ final_df.bound
     /\ \/ High # <<>>
        \/ Low # <<>>
        \/ (exc # "none" \/ pc = "raised") /\ RefCohorts # {})
    => ~RefDegenerate

\* A returned classification of two or more cohorts of one mean.
C3_Witness ==
    /\ pc = "returned"
    /\ Cardinality(RefCohorts) >= 2
    /\ RefDegenerate
(***************************************************************************)
(* Reference view of the pages, taken from the responses received.         *)
(***************************************************************************)
\* The non-blank lines of the body of page k.
RefLines(k) == NonBlank(Strip(fetched[k].text))

\* The response of page k ends the pagination: a status other than 200, a body
\* empty after stripping, or a body that starts with "No records".
RefTerminating(k) ==
    \/ fetched[k].status # 200
    \/ RefLines(k) = <<>>
    \/ Head(RefLines(k)) = NoRecords

\* The data rows of page k: the header line of page 1 is no row, the first
\* line of a later page is one.
RefPageRows(k) ==
    IF k = 1 THEN SubSeq(RefLines(1), 2, Len(RefLines(1))) ELSE RefLines(k)

RECURSIVE RefDataset(_)
\* The rows of pages 1..k, in page order then in-page order.
RefDataset(k) == IF k = 0 THEN <<>> ELSE RefDataset(k - 1) \o RefPageRows(k)

RECURSIVE RefRowCount(_)
RefRowCount(k) ==
    IF k = 0 THEN 0
    ELSE RefRowCount(k - 1) + Len(RefLines(k)) - (IF k = 1 THEN 1 ELSE 0)

NonSuccess(status) == status < 200 \/ status > 299

AfterLoop == pc \in {"concat", "aggregate", "classify", "returned"}

\* C4: a non-success status on page N stops the pagination (no further
\* request), the fetch raises nothing, and the dataset is exactly the rows of
\* pages 1..N-1, none when N = 1; what is raised afterwards, if anything, is
\* no fetch failure.
C4_FailedPageStopsPagination ==
    \A n \in 1..Len(fetched) :
        (NonSuccess(fetched[n].status) /\ ~(n = Len(fetched) /\ pc = "status"))
        => /\ n = Len(fetched)
           /\ requested = [i \in 1..n |-> i]
           /\ page = n
           /\ pc \in {"concat", "aggregate", "classify", "returned", "raised",
                      "done"}
           /\ ConcatRows(all_data) = RefDataset(n - 1)
           /\ final_df.bound => final_df.rows = RefDataset(n - 1)
           /\ n = 1 => (all_data = <<>> /\ ~final_df.bound)
           /\ exc \notin {"ConnectionError", "HTTPError"}
           /\ toolResult.error \notin {"ConnectionError", "HTTPError"}

\* Page 3 failed after two pages of rows, and their four rows are the dataset.
C4_Witness ==
    /\ pc = "aggregate"
    /\ Len(fetched) = 3
    /\ NonSuccess(fetched[3].status)
    /\ final_df.bound
    /\ Len(final_df.rows) = 4

\* The first page came with status 200 and without rows.
RefFirstPageEmpty ==
    /\ Len(fetched) >= 1
    /\ fetched[1].status = 200
    /\ (RefLines(1) = <<>> \/ Head(RefLines(1)) = NoRecords)

\* C5: when the first page yields no rows (empty body, or "No records"), the
\* call raises at the aggregation of no rows, returns no classification, and
\* the tool returns the error list.
C5_EmptyFirstPageFails ==
    RefFirstPageEmpty =>
        /\ Len(requested) = 1
        /\ result = NoResult
        /\ pc \notin {"classify", "returned", "crashed"}
        /\ toolResult.kind \in {"pending", "error_list"}
        /\ pc = "raised" => exc = "UnboundLocalError"
        /\ pc = "done" =>
              toolResult = [kind |-> "error_list", value |-> NoResult,
                            error |-> "UnboundLocalError"]

\* The tool has answered a first page saying "No records".
C5_Witness ==
    /\ pc = "done"
    /\ RefFirstPageEmpty
    /\ RefLines(1) # <<>>
    /\ toolResult.kind = "error_list"

\* C6: the tool lets no exception escape: after any failure of the call it
\* returns the one-element error list with the exception's message, and
\* otherwise the result of the call unchanged.
C6_ToolNeverRaises ==
    /\ pc # "crashed"
    /\ toolResult.kind # "escaped"
    /\ pc = "done" =>
          IF exc # "none"
          THEN toolResult = [kind |-> "error_list", value |-> NoResult,
                             error |-> exc]
          ELSE toolResult = [kind |-> "result", value |-> result,
                             error |-> "none"]

\* The tool has answered a call that failed in parsing a page.
C6_Witness ==
    /\ pc = "done"
    /\ exc = "ParserError"
    /\ toolResult.kind = "error_list"
    /\ gene = "EGFR"

\* Page k has been read by read_csv: it passed both checks and the parse took
\* place.
RefParsed(k) ==
    /\ ~RefTerminating(k)
    /\ k < Len(fetched) \/ pc \notin {"status", "content", "parse"}

\* The column count of page k (the fields of its first line, as
\* read_csv(header=None) takes it) differs from that of the header of page 1.
RefColumnMismatch(k) == Len(RefLines(k)[1]) # Len(RefLines(1)[1])

\* C7: the columns are those of the header of page 1 for every page kept; a
\* later page of another column count makes the call fail, and no
\* classification is returned.
C7_ColumnCountMismatchFails ==
    /\ all_data # <<>> =>
          /\ columns = RefLines(1)[1]
          /\ \A i \in 1..Len(all_data) : all_data[i].columns = columns
    /\ \A k \in 2..Len(fetched) :
          (RefParsed(k) /\ RefColumnMismatch(k)) =>
              /\ pc \in {"raised", "done"}
              /\ exc = "ValueError"
              /\ Len(all_data) = k - 1
              /\ result = NoResult
              /\ toolResult.kind \in {"pending", "error_list"}

\* The tool has answered a call whose second page had one column more than
\* the header of page 1.
C7_Witness ==
    /\ pc = "done"
    /\ Len(fetched) = 2
    /\ RefParsed(2)
    /\ Len(RefLines(2)[1]) > Len(RefLines(1)[1])
    /\ toolResult.kind = "error_list"

\* C8: the pages kept are pages 1..page-1, and their concatenation holds the
\* data rows of these pages in page order then in-page order, as many as the
\* pages have together; when the loop has ended these are the pages before
\* the terminating response.
C8_DatasetIsConcatenationOfPages ==
    /\ Len(all_data) = page - 1
    /\ ConcatRows(all_data) = RefDataset(page - 1)
    /\ Len(ConcatRows(all_data)) = RefRowCount(page - 1)
    /\ final_df.bound =>
          /\ final_df.rows = RefDataset(page - 1)
          /\ Len(final_df.rows) = RefRowCount(page - 1)
    /\ AfterLoop => (Len(fetched) = page /\ RefTerminating(page))

\* Two pages of two rows each, then the terminating page: four rows.
C8_Witness ==
    /\ pc = "aggregate"
    /\ page = 3
    /\ final_df.bound
    /\ Len(final_df.rows) = 4
    /\ Len(RefLines(1)) = 3

\* C9: the pages requested are 1, 2, ..., each once and in order; page N+1 is
\* requested only after page N passed the termination check, and nothing is
\* requested after a terminating response, which ends the loop.
C9_SequentialRequests ==
    /\ requested = [i \in 1..Len(requested) |-> i]
    /\ Len(fetched) <= Len(requested)
    /\ Len(requested) <= Len(fetched) + 1
    /\ Len(requested) = Len(fetched) + 1 => exc = "ConnectionError"
    /\ \A k \in 1..(Len(requested) - 1) : ~RefTerminating(k)
    /\ pc = "request" =>
          /\ page = Len(requested) + 1
          /\ \A k \in 1..Len(fetched) : ~RefTerminating(k)
    /\ AfterLoop =>
          /\ Len(requested) = Len(fetched)
          /\ page = Len(requested)
          /\ RefTerminating(Len(fetched))

\* Pages 1, 2, 3 were requested and page 3 said "No records".
C9_Witness ==
    /\ pc = "concat"
    /\ requested = <<1, 2, 3>>
    /\ fetched[3].status = 200
    /\ RefLines(3) # <<>>
    /\ Head(RefLines(3)) = NoRecords

\* C10: one invocation issues at most PageCap page requests, whatever the
\* endpoint answers.
C10_RequestsWithinCap == Len(requested) <= PageCap
====
